---------------------------- MODULE Spec2Model ----------------------------
(***************************************************************************)
(* WhatsApp Chat Analyzer (app.py): the chat parser `preprocess` and the   *)
(* Streamlit script that calls it.                                         *)
(*                                                                         *)
(* Text is a TLA+ string; Char(s, i) is its i-th character (1-based).      *)
(* Two characters of the source that are not ASCII are written with a      *)
(* stand-in: NNBSP is U+202F (narrow no-break space), LRM is U+200E        *)
(* (left-to-right mark).  No input of the model uses the stand-ins for     *)
(* anything else.                                                          *)
(***************************************************************************)
EXTENDS Integers, Sequences, FiniteSets, TLC

Char(s, i) == SubSeq(s, i, i)

NNBSP == "~"

LRM == "^"

Digits == {"0", "1", "2", "3", "4", "5", "6", "7", "8", "9"}

\* Python's \s on str, and the characters str.strip() removes, restricted to
\* the model's alphabet.  U+202F is whitespace (category Zs); U+200E is not.
Whitespace == {" ", "\n", "\t", NNBSP}

(***************************************************************************)
(* A regular expression of the fragment app.py (and the strptime format)   *)
(* uses: a sequence of items; an item is an ordered list of alternatives;  *)
(* an alternative is a sequence of atoms; an atom is a character class     *)
(* (set, negated or not) with a greedy repetition lo..hi (hi = 0: no       *)
(* upper limit).                                                           *)
(*                                                                         *)
(* Python's re is a backtracking matcher: at each item it tries the        *)
(* alternatives in order and each repetition from the longest down, and    *)
(* keeps the first choice with which the rest of the expression matches.   *)
(* ItemEnds lists an item's choices in that order (as the positions where  *)
(* the item would end); Viable says from which positions the items k..     *)
(* match; Walk takes, item by item, the first choice that leaves a viable  *)
(* position: the match re finds.                                           *)
(***************************************************************************)
Atom(set, neg, lo, hi) == [set |-> set, neg |-> neg, lo |-> lo, hi |-> hi]

Lit(c) == <<  <<Atom({c}, FALSE, 1, 1)>>  >>

One(set) == <<  <<Atom(set, FALSE, 1, 1)>>  >>

Rep(set, lo, hi) == <<  <<Atom(set, FALSE, lo, hi)>>  >>

InClass(c, a) == (c \in a.set) # a.neg

ReFail == <<0>>

Min(a, b) == IF a < b THEN a ELSE b

Smallest(S) == CHOOSE n \in S : \A m \in S : n <= m

\* how many characters from position i on are in the atom's class, at most n
ClassRun(s, i, a, n) ==
    LET last == Min(Len(s), i + n - 1)
        others == {j \in i..last : ~InClass(Char(s, j), a)}
    IN  IF others = {} THEN last - i + 1 ELSE Smallest(others) - i

RECURSIVE Flatten(_, _)
\* the sequences ss[j], ss[j+1], ... one after another
Flatten(ss, j) == IF j > Len(ss) THEN <<>> ELSE ss[j] \o Flatten(ss, j + 1)

RECURSIVE AltEnds(_, _, _)
\* the positions where an alternative (its atoms) can end when it starts at
\* i, in the order the matcher tries them: longer repetitions first
AltEnds(atoms, s, i) ==
    IF atoms = <<>>
    THEN <<i>>
    ELSE LET a == Head(atoms)
             most == ClassRun(s, i, a, IF a.hi = 0 THEN Len(s) ELSE a.hi)
         IN  IF Len(atoms) = 1
             THEN [j \in 1..(most - a.lo + 1) |-> i + most - j + 1]
             ELSE Flatten([j \in 1..(most - a.lo + 1) |->
                             AltEnds(Tail(atoms), s, i + most - j + 1)], 1)

\* the positions where an item can end when it starts at i, in the order
\* the matcher tries them: the alternatives in order
ItemEnds(item, s, i) ==
    IF Len(item) = 1
    THEN AltEnds(item[1], s, i)
    ELSE Flatten([j \in 1..Len(item) |-> AltEnds(item[j], s, i)], 1)

Positions(ends) == {ends[j] : j \in 1..Len(ends)}

RECURSIVE Reach(_, _, _, _)
\* <<R_0, R_1, .., R_k>>: R_0 = from, R_n the positions where item n can end
\* when items 1..n match from a position of `from`
Reach(re, s, from, k) ==
    IF k = 0
    THEN <<from>>
    ELSE LET before == Reach(re, s, from, k - 1)
         IN  Append(before,
                    UNION {Positions(ItemEnds(re[k], s, i)) : i \in before[k]})

RECURSIVE Viable(_, _, _, _)
\* <<V_k, .., V_n, V_n+1>>: V_n+1 the positions where the whole expression
\* can end, V_m the positions reach[m] from which the items m..n match
Viable(re, s, reach, k) ==
    IF k = Len(re) + 1
    THEN <<reach[k]>>
    ELSE LET after == Viable(re, s, reach, k + 1)
         IN  << {i \in reach[k] : Positions(ItemEnds(re[k], s, i)) \cap after[1] # {}} >>
             \o after

RECURSIVE Walk(_, _, _, _, _)
\* the end positions of the items k.. of the match that starts item k at i
\* (a viable position): each item ends at its first choice that is viable
Walk(re, s, viable, i, k) ==
    IF k > Len(re)
    THEN <<>>
    ELSE LET ends == ItemEnds(re[k], s, i)
             first == Smallest({j \in 1..Len(ends) : ends[j] \in viable[k + 1]})
         IN  <<ends[first]>> \o Walk(re, s, viable, ends[first], k + 1)

\* which positions of `from` start a match of re in s
MatchStarts(re, s, from) == Viable(re, s, Reach(re, s, from, Len(re)), 1)

\* re.match at position i: the items' end positions, or ReFail
ReMatchAt(re, s, i) ==
    LET viable == MatchStarts(re, s, {i})
    IN  IF i \in viable[1] THEN Walk(re, s, viable, i, 1) ELSE ReFail

\* re.search: <<start>> \o item ends of the leftmost match, or ReFail
ReSearch(re, s) ==
    LET viable == MatchStarts(re, s, 1..Len(s))
        start == Smallest(viable[1])
    IN  IF viable[1] = {} THEN ReFail ELSE <<start>> \o Walk(re, s, viable, start, 1)

MatchStart(m) == m[1]

MatchEnd(m) == m[Len(m)]

\* r'\d{1,2}/\d{1,2}/\d{2,4}, \d{1,2}:\d{2}\u202F?[APap][Mm] -'
pattern ==
    << Rep(Digits, 1, 2), Lit("/"), Rep(Digits, 1, 2), Lit("/"),
       Rep(Digits, 2, 4), Lit(","), Lit(" "), Rep(Digits, 1, 2), Lit(":"),
       Rep(Digits, 2, 2), Rep({NNBSP}, 0, 1), One({"A", "P", "a", "p"}),
       One({"M", "m"}), Lit(" "), Lit("-") >>

RECURSIVE Scan(_, _, _, _)
\* the matches re.finditer yields from position i on: each the leftmost
\* match that starts at or after the end of the one before
Scan(re, s, viable, i) ==
    LET starts == {j \in viable[1] : j >= i}
        m == <<Smallest(starts)>> \o Walk(re, s, viable, Smallest(starts), 1)
    IN  IF starts = {} THEN <<>> ELSE <<m>> \o Scan(re, s, viable, MatchEnd(m))

FindIter(re, s) == Scan(re, s, MatchStarts(re, s, 1..Len(s)), 1)

\* re.findall (a pattern without groups): the texts of the matches ms of
\* s, in order
FindAll(ms, s) ==
    [n \in 1..Len(ms) |-> SubSeq(s, MatchStart(ms[n]), MatchEnd(ms[n]) - 1)]

\* re.split (a pattern without groups): the texts between the matches ms of
\* s, the one before the first match and the one after the last included
Split(ms, s) ==
    [n \in 1..(Len(ms) + 1) |->
       SubSeq(s, IF n = 1 THEN 1 ELSE MatchEnd(ms[n - 1]),
                 IF n > Len(ms) THEN Len(s) ELSE MatchStart(ms[n]) - 1)]

(***************************************************************************)
(* preprocess, lines 32-35: cleaning the matched dates and converting them *)
(* with pd.to_datetime(format='%d/%m/%y, %I:%M%p -', errors='coerce').     *)
(***************************************************************************)
RECURSIVE Replace(_, _)
\* str.replace(c, '')
Replace(s, c) ==
    IF s = ""
    THEN ""
    ELSE (IF Char(s, 1) = c THEN "" ELSE Char(s, 1))
         \o Replace(SubSeq(s, 2, Len(s)), c)

RECURSIVE LStrip(_)
LStrip(s) ==
    IF s # "" /\ Char(s, 1) \in Whitespace
    THEN LStrip(SubSeq(s, 2, Len(s)))
    ELSE s

RECURSIVE RStrip(_)
RStrip(s) ==
    IF s # "" /\ Char(s, Len(s)) \in Whitespace
    THEN RStrip(SubSeq(s, 1, Len(s) - 1))
    ELSE s

\* str.strip()
Strip(s) == RStrip(LStrip(s))

\* d.replace('\u202F', '').replace('\u200e', '').strip()
\* line 32 without its first replace: the narrow no-break space is kept
CleanDateKeepingSpace(d) == Strip(Replace(d, LRM))

CleanDate(d) == Strip(Replace(Replace(d, NNBSP), LRM))

DigitValue(c) ==
    CASE c = "0" -> 0 [] c = "1" -> 1 [] c = "2" -> 2 [] c = "3" -> 3
      [] c = "4" -> 4 [] c = "5" -> 5 [] c = "6" -> 6 [] c = "7" -> 7
      [] c = "8" -> 8 [] c = "9" -> 9 [] OTHER -> 0

RECURSIVE ToInt(_)
\* int(s) of a string of digits, a leading blank allowed (the ' [1-9]'
\* alternative of %d)
ToInt(s) ==
    IF s = ""
    THEN 0
    ELSE 10 * ToInt(SubSeq(s, 1, Len(s) - 1)) + DigitValue(Char(s, Len(s)))

\* The regular expression strptime builds from '%d/%m/%y, %I:%M%p -': each
\* directive its own alternatives, a blank of the format is \s+, %p is
\* am|pm matched ignoring case.
D19 == Digits \ {"0"}

format_regex ==
    << << <<Atom({"3"}, FALSE, 1, 1), Atom({"0", "1"}, FALSE, 1, 1)>>,
          <<Atom({"1", "2"}, FALSE, 1, 1), Atom(Digits, FALSE, 1, 1)>>,
          <<Atom({"0"}, FALSE, 1, 1), Atom(D19, FALSE, 1, 1)>>,
          <<Atom(D19, FALSE, 1, 1)>>,
          <<Atom({" "}, FALSE, 1, 1), Atom(D19, FALSE, 1, 1)>> >>,
       Lit("/"),
       << <<Atom({"1"}, FALSE, 1, 1), Atom({"0", "1", "2"}, FALSE, 1, 1)>>,
          <<Atom({"0"}, FALSE, 1, 1), Atom(D19, FALSE, 1, 1)>>,
          <<Atom(D19, FALSE, 1, 1)>> >>,
       Lit("/"),
       Rep(Digits, 2, 2),
       Lit(","),
       << <<Atom(Whitespace, FALSE, 1, 0)>> >>,
       << <<Atom({"1"}, FALSE, 1, 1), Atom({"0", "1", "2"}, FALSE, 1, 1)>>,
          <<Atom({"0"}, FALSE, 1, 1), Atom(D19, FALSE, 1, 1)>>,
          <<Atom(D19, FALSE, 1, 1)>> >>,
       Lit(":"),
       << <<Atom({"0", "1", "2", "3", "4", "5"}, FALSE, 1, 1),
            Atom(Digits, FALSE, 1, 1)>>,
          <<Atom(Digits, FALSE, 1, 1)>> >>,
       << <<Atom({"a", "A"}, FALSE, 1, 1), Atom({"m", "M"}, FALSE, 1, 1)>>,
          <<Atom({"p", "P"}, FALSE, 1, 1), Atom({"m", "M"}, FALSE, 1, 1)>> >>,
       << <<Atom(Whitespace, FALSE, 1, 0)>> >>,
       Lit("-") >>

NaT == <<>>

IsLeap(y) == (y % 4 = 0 /\ y % 100 # 0) \/ y % 400 = 0

DaysInMonth(y, m) ==
    IF m = 2 THEN (IF IsLeap(y) THEN 29 ELSE 28)
    ELSE IF m \in {4, 6, 9, 11} THEN 30 ELSE 31

\* the text of group g of a match m (m[1] is the start, m[g+1] the end of
\* item g)
Group(s, m, g) == SubSeq(s, m[g], m[g + 1] - 1)

\* One value of pd.to_datetime(..., format, errors='coerce'): the timestamp
\* <<year, month, day, hour, minute>>, or NaT when the text does not match
\* the format entirely or names no calendar date.
ToDatetime(val) ==
    LET m == ReMatchAt(format_regex, val, 1)
    IN  IF m = ReFail
        THEN NaT
        ELSE LET f == <<1>> \o m
                 yy == ToInt(Group(val, f, 5))
                 year == IF yy <= 68 THEN 2000 + yy ELSE 1900 + yy
                 month == ToInt(Group(val, f, 3))
                 day == ToInt(Group(val, f, 1))
                 I == ToInt(Group(val, f, 8))
                 pm == Char(Group(val, f, 11), 1) \in {"p", "P"}
                 hour == IF pm
                         THEN (IF I = 12 THEN 12 ELSE I + 12)
                         ELSE (IF I = 12 THEN 0 ELSE I)
                 minute == ToInt(Group(val, f, 10))
             IN  IF MatchEnd(f) # Len(val) + 1
                 THEN NaT
                 ELSE IF day > DaysInMonth(year, month)
                 THEN NaT
                 ELSE <<year, month, day, hour, minute>>

(***************************************************************************)
(* preprocess, lines 42-44: sender and body of a block.                    *)
(***************************************************************************)
\* r'([^:]+):\s'
sender_regex ==
    << << <<Atom({":"}, TRUE, 1, 0)>> >>, Lit(":"), One(Whitespace) >>

\* ':' in x
Contains(x, c) == \E i \in 1..Len(x) : Char(x, i) = c

\* re.split(r'([^:]+):\s', x, maxsplit=1): the text before the leftmost
\* match, the group, and the text after the match; x alone without a match
SenderSplit(x) ==
    LET m == ReSearch(sender_regex, x)
    IN  IF m = ReFail
        THEN <<x>>
        ELSE << SubSeq(x, 1, MatchStart(m) - 1),
                Group(x, m, 1),
                SubSeq(x, MatchEnd(m), Len(x)) >>

\* the lambdas of lines 43 and 44 on a block x whose split is `parts`
\* (both compute the same split): they index it at [1] and [2], an
\* IndexError when the block holds a colon and the expression matches
\* nowhere
RaisesIndexError(x, parts) == Contains(x, ":") /\ Len(parts) < 3

User(x, parts) == IF Contains(x, ":") THEN parts[2] ELSE "group_notification"

Message(x, parts) == IF Contains(x, ":") THEN parts[3] ELSE x

(***************************************************************************)
(* preprocess, lines 49-54: the calendar fields of a timestamp; each is    *)
(* NaN (here <<>>) for NaT, and <<value>> otherwise.                       *)
(***************************************************************************)
NaN == <<>>

MonthNames ==
    << "January", "February", "March", "April", "May", "June", "July",
       "August", "September", "October", "November", "December" >>

DayNames ==
    << "Sunday", "Monday", "Tuesday", "Wednesday", "Thursday", "Friday",
       "Saturday" >>

\* the weekday of a calendar date, 1 = Sunday .. 7 = Saturday
Weekday(year, month, day) ==
    LET t == <<0, 3, 2, 5, 0, 3, 5, 1, 4, 6, 2, 4>>
        y == IF month < 3 THEN year - 1 ELSE year
    IN  ((y + (y \div 4) - (y \div 100) + (y \div 400) + t[month] + day) % 7)
        + 1

DtYear(d) == IF d = NaT THEN NaN ELSE <<d[1]>>

DtMonthName(d) == IF d = NaT THEN NaN ELSE <<MonthNames[d[2]]>>

DtDay(d) == IF d = NaT THEN NaN ELSE <<d[3]>>

DtHour(d) == IF d = NaT THEN NaN ELSE <<d[4]>>

DtMinute(d) == IF d = NaT THEN NaN ELSE <<d[5]>>

DtDayName(d) == IF d = NaT THEN NaN ELSE <<DayNames[Weekday(d[1], d[2], d[3])]>>

(***************************************************************************)
(* The metrics of the analysis, lines 101-104.                             *)
(***************************************************************************)
\* len(x.split()): the runs of characters that are not whitespace, counted
\* at the character that starts each
WordCount(s) ==
    Cardinality({ i \in 1..Len(s) :
                    /\ Char(s, i) \notin Whitespace
                    /\ i = 1 \/ Char(s, i - 1) \in Whitespace })

\* 'http' in x (Series.str.contains)
ContainsHttp(s) == \E i \in 1..Len(s) : i + 3 <= Len(s) /\ SubSeq(s, i, i + 3) = "http"

MediaOmitted == "<Media omitted>"

RECURSIVE SumOver(_, _, _)
\* the sum of f[row] over the rows i.. of a table
SumOver(rows, f, i) ==
    IF i > Len(rows) THEN 0 ELSE f[i] + SumOver(rows, f, i + 1)

\* df on "Overall", df[df['user'] == selected_user] otherwise
Filtered(rows, user) ==
    IF user = "Overall" THEN rows ELSE SelectSeq(rows, LAMBDA r : r.user = user)

Metrics(rows) ==
    [ total_messages |-> Len(rows),
      total_words |-> SumOver(rows, [i \in 1..Len(rows) |-> WordCount(rows[i].message)], 1),
      media_messages |-> Len(SelectSeq(rows, LAMBDA r : r.message = MediaOmitted)),
      link_count |-> Len(SelectSeq(rows, LAMBDA r : ContainsHttp(r.message))) ]

(***************************************************************************)
(* The uploaded texts the model draws from: chats of up to MaxMsgs         *)
(* messages (a date, then the text of the message, one message after       *)
(* another on lines of their own), with or without text before the first   *)
(* date and a line break at the end; and single messages whose date is     *)
(* put together from every combination of a few day, month, year, hour     *)
(* and minute digits.                                                      *)
(***************************************************************************)
MaxMsgs == 2

ChatStamps == {"1/1/24, 9:00" \o NNBSP \o "am -", "1/1/2024, 9:05pm -"}

ChatTexts ==
    { " Al: one\ntwo", " Bo: <Media omitted>", " joined", " see http://x",
      " a:b c: d" }

ChatMessages == {d \o t : d \in ChatStamps, t \in ChatTexts}

\* text before the first date and at the end of the file
Layouts == {<<"", "">>, <<"hello\n", "\n">>}

RECURSIVE Repeat(_, _)
\* the message m on n lines
Repeat(m, n) == IF n = 0 THEN "" ELSE m \o "\n" \o Repeat(m, n - 1)

\* no message; or a message, written 0 to MaxMsgs - 1 times, and a last one
Lines ==
    {""} \cup { Repeat(m, n) \o last :
                  m \in ChatMessages, n \in 0..(MaxMsgs - 1), last \in ChatMessages }

ChatInputs == {l[1] \o body \o l[2] : l \in Layouts, body \in Lines}

StampInputs ==
    { day \o "/" \o month \o "/" \o year \o ", " \o hour \o ":" \o minute
          \o ampm \o " - hi" :
        day \in {"0", "1", "29", "31", "32"},
        month \in {"0", "2", "04", "13"},
        year \in {"23", "24", "024", "2024"},
        hour \in {"0", "9", "12", "13"},
        minute \in {"05", "60"},
        ampm \in {"am", NNBSP \o "PM"} }

Inputs == ChatInputs \cup StampInputs

(***************************************************************************)
(* State.  A run of the script is the steps Script, Columns, Widgets; the  *)
(* session waits ("idle") between runs for the user to upload or remove a  *)
(* file, pick a user or press the button, each of which reruns the script. *)
(***************************************************************************)
VARIABLES
    uploaded_file,   \* <<>> (None) or <<text>>: the file uploader's value
    selected_user,   \* the selectbox's value
    show,            \* the "Show Analysis" button, pressed for this run
    pc,              \* "idle", "script", "columns", "widgets"
    dates,           \* this run's preprocess: the matched dates (line 30)
    frame,           \* this run's preprocess: df after line 35, rows
                     \* [user_message, date]
    df,              \* the script's df: <<>> (None) or <<table>>
    screen,          \* what the current run has put on the page
    user_options,    \* the options of the selectbox, when rendered
    metrics          \* <<>> or <<the four metrics shown>>

vars ==
    << uploaded_file, selected_user, show, pc, dates, frame, df, screen,
       user_options, metrics >>

None == <<>>

Init ==
    /\ uploaded_file = None
    /\ selected_user = "Overall"
    /\ show = FALSE
    /\ pc = "script"
    /\ dates = <<>>
    /\ frame = <<>>
    /\ df = None
    /\ screen = {}
    /\ user_options = {}
    /\ metrics = <<>>

\* an event of the page reruns the script from its first line: line 65,
\* the page is drawn anew and nothing of the last run is left
Rerun ==
    /\ pc' = "script"
    /\ df' = None
    /\ screen' = {}
    /\ user_options' = {}
    /\ metrics' = <<>>
    /\ dates' = <<>>
    /\ frame' = <<>>

\* line 62: the user uploads a text file
Upload(text) ==
    /\ pc = "idle"
    /\ uploaded_file = None
    /\ uploaded_file' = <<text>>
    /\ show' = FALSE
    /\ Rerun
    /\ UNCHANGED selected_user

\* line 62: the user removes the uploaded file
RemoveFile ==
    /\ pc = "idle"
    /\ uploaded_file # None
    /\ uploaded_file' = None
    /\ show' = FALSE
    /\ Rerun
    /\ UNCHANGED selected_user

\* line 82: the user picks another user in the selectbox
SelectUser(user) ==
    /\ pc = "idle"
    /\ user \in user_options
    /\ user # selected_user
    /\ selected_user' = user
    /\ show' = FALSE
    /\ Rerun
    /\ UNCHANGED uploaded_file

\* line 91: the user presses "Show Analysis"
ClickShow ==
    /\ pc = "idle"
    /\ "selectbox" \in screen
    /\ show' = TRUE
    /\ Rerun
    /\ UNCHANGED <<uploaded_file, selected_user>>

\* lines 28-30: both lists cut to the shorter one
MinLen(blocks, found) == IF Len(blocks) < Len(found) THEN Len(blocks) ELSE Len(found)

\* lines 34-35: the frame of blocks and converted dates
Frame(blocks, cleaned) ==
    [ n \in 1..Len(blocks) |->
        [user_message |-> blocks[n], date |-> ToDatetime(cleaned[n])] ]

\* preprocess to line 35: the text split at the dates; nothing found
\* (return None), or the dates kept and the frame
Parse(data) ==
    LET found_at == FindIter(pattern, data)
        all_messages == Tail(Split(found_at, data))
        all_dates == FindAll(found_at, data)
        min_len == MinLen(all_messages, all_dates)
        messages == SubSeq(all_messages, 1, min_len)
        found == SubSeq(all_dates, 1, min_len)
        clean_dates == [n \in 1..min_len |-> CleanDate(found[n])]
    IN  IF all_messages = <<>> \/ all_dates = <<>>
        THEN [none |-> TRUE, dates |-> <<>>, frame |-> <<>>]
        ELSE [none |-> FALSE, dates |-> found, frame |-> Frame(messages, clean_dates)]

\* lines 67-69 and preprocess to line 40: split the text at the dates, stop
\* with None when there is none, build the frame and report dates that did
\* not convert
Script ==
    /\ pc = "script"
    /\ IF uploaded_file = None
       THEN /\ pc' = "widgets"
            /\ UNCHANGED <<dates, frame, screen>>
       ELSE \E parsed \in {Parse(uploaded_file[1])} :
                IF parsed.none
                THEN /\ pc' = "widgets"
                     /\ UNCHANGED <<dates, frame, screen>>
                ELSE /\ pc' = "columns"
                     /\ dates' = parsed.dates
                     /\ frame' = parsed.frame
                     /\ screen' = IF \E n \in 1..Len(parsed.frame) : parsed.frame[n].date = NaT
                                  THEN screen \cup {"dates_error"}
                                  ELSE screen
    /\ UNCHANGED <<uploaded_file, selected_user, show, df, user_options, metrics>>

\* lines 42-56: one row of the table preprocess returns, from a row of
\* the frame and the split of its block
Row(r, parts) ==
    [ date |-> r.date,
      user |-> User(r.user_message, parts),
      message |-> Message(r.user_message, parts),
      year |-> DtYear(r.date),
      month |-> DtMonthName(r.date),
      day |-> DtDay(r.date),
      hour |-> DtHour(r.date),
      minute |-> DtMinute(r.date),
      day_name |-> DtDayName(r.date) ]

\* lines 42-56 and 69: the user and message columns (an IndexError of a
\* lambda ends the run with the exception on the page), the calendar
\* columns, and the table returned to the script
Columns ==
    /\ pc = "columns"
    /\ \E splits \in {[i \in 1..Len(frame) |-> SenderSplit(frame[i].user_message)]} :
         IF \E i \in 1..Len(frame) : RaisesIndexError(frame[i].user_message, splits[i])
         THEN /\ pc' = "idle"
              /\ screen' = screen \cup {"exception"}
              /\ UNCHANGED df
         ELSE /\ pc' = "widgets"
              /\ df' = << [i \in 1..Len(frame) |-> Row(frame[i], splits[i])] >>
              /\ UNCHANGED screen
    /\ UNCHANGED <<uploaded_file, selected_user, show, dates, frame, user_options, metrics>>

\* lines 71-115: the success message and the sample; the selectbox over the
\* users; the metrics of the selected user's rows when the button was pressed
Widgets ==
    /\ pc = "widgets"
    /\ pc' = "idle"
    /\ show' = FALSE
    /\ IF df = None
       THEN /\ selected_user' = "Overall"
            /\ UNCHANGED <<screen, metrics, user_options>>
       ELSE LET rows == df[1]
                options == {rows[i].user : i \in 1..Len(rows)} \cup {"Overall"}
                user == IF selected_user \in options THEN selected_user ELSE "Overall"
            IN  /\ user_options' = options
                /\ selected_user' = user
                /\ screen' = screen
                             \cup (IF rows # <<>> THEN {"success"} ELSE {})
                             \cup {"selectbox"}
                             \cup (IF show THEN {"metrics"} ELSE {})
                /\ metrics' \in {IF show THEN <<Metrics(Filtered(rows, user))>> ELSE <<>>}
    /\ UNCHANGED <<uploaded_file, dates, frame, df>>

Next ==
    \/ \E text \in Inputs : Upload(text)
    \/ RemoveFile
    \/ \E user \in user_options : SelectUser(user)
    \/ ClickShow
    \/ Script
    \/ Columns
    \/ Widgets

Spec == Init /\ [][Next]_vars

(***************************************************************************)
(* The properties.  A run has ended when pc = "idle"; `dates` and `frame`  *)
(* then hold the dates the pattern matched and the blocks after them, and  *)
(* df the table preprocess returned, if it returned one.                   *)
(***************************************************************************)

\* the run over an uploaded file has ended
RunEnded == pc = "idle" /\ uploaded_file # None

\* the records of the table
Records == df[1]

RECURSIVE Interleave(_)
\* the first i dates, each followed by its block
Interleave(i) ==
    IF i = 0 THEN "" ELSE Interleave(i - 1) \o dates[i] \o frame[i].user_message

IsSuffix(t, s) == Len(t) <= Len(s) /\ SubSeq(s, Len(s) - Len(t) + 1, Len(s)) = t

\* C1: when the pattern matches N >= 1 times, preprocess returns exactly N
\* records, the i-th made of the i-th match and of the block that follows
\* it up to the next match or the end of the text; the text before the
\* first match is in no record and the truncation removes none.
C1_OneRecordPerMatch ==
    (RunEnded /\ dates # <<>>) =>
        /\ df # None
        /\ Len(Records) = Len(dates)
        /\ IsSuffix(Interleave(Len(dates)), uploaded_file[1])
        /\ \A i \in 1..Len(dates) :
              /\ Records[i].date = frame[i].date
              /\ IsSuffix(Records[i].message, frame[i].user_message)

\* the position of the first colon of x, 0 when it has none
FirstColon(x) ==
    IF Contains(x, ":") THEN Smallest({k \in 1..Len(x) : Char(x, k) = ":"}) ELSE 0

\* the block begins with a `name: ` delimiter: non-colon characters, a
\* colon, a space
BeginsWithName(x) ==
    FirstColon(x) > 1 /\ FirstColon(x) < Len(x) /\ Char(x, FirstColon(x) + 1) = " "

\* C2: the sender of a record is "group_notification" if and only if its
\* block does not begin with a `name: ` delimiter; a later colon, or a
\* colon followed by something else than a space, makes no user message.
C2_SentinelIffNoName ==
    (RunEnded /\ df # None) =>
        \A i \in 1..Len(Records) :
            (Records[i].user = "group_notification")
                <=> ~BeginsWithName(frame[i].user_message)

\* C3: with at least one match preprocess returns a table and never
\* raises, whatever the blocks and the dates hold; only a text without a
\* match gives the failure outcome.
C3_NeverRaises ==
    /\ "exception" \notin screen
    /\ (RunEnded /\ df = None) => dates = <<>>

\* C4: preprocess returns None for the empty text and for every text the
\* pattern matches nowhere, and a table for every text with a match.
C4_NoneIffNoMatch ==
    RunEnded =>
        /\ uploaded_file[1] = "" => df = None
        /\ dates = <<>> => df = None
        /\ dates # <<>> => df # None

\* C5: in a run where a file was uploaded and preprocess found no message,
\* the page shows an "unsupported file" message and no selection, metric
\* or chart; the analysis is reached only after a successful parse.
C5_UnsupportedFileShown ==
    /\ (RunEnded /\ dates = <<>>) =>
          /\ "unsupported_file" \in screen
          /\ "selectbox" \notin screen
          /\ "metrics" \notin screen
    /\ ("selectbox" \in screen \/ "metrics" \in screen) => df # None

\* C6: a record whose date fails the format is still in the output at its
\* position, its timestamp and its six calendar fields null, and the other
\* records keep their timestamps and fields.
C6_BadDateKeepsRecord ==
    RunEnded =>
        \A i \in 1..Len(frame) :
            frame[i].date = NaT =>
                /\ df # None
                /\ Len(Records) = Len(frame)
                /\ Records[i].date = NaT
                /\ Records[i].year = NaN
                /\ Records[i].month = NaN
                /\ Records[i].day = NaN
                /\ Records[i].hour = NaN
                /\ Records[i].minute = NaN
                /\ Records[i].day_name = NaN
                /\ \A j \in 1..Len(frame) :
                      /\ Records[j].date = frame[j].date
                      /\ Records[j].year = DtYear(frame[j].date)
                      /\ Records[j].day_name = DtDayName(frame[j].date)

\* the block of a message `name: <Media omitted>`, at the end of the text
\* or before a line break
IsMediaBlock(x) ==
    /\ BeginsWithName(x)
    /\ SubSeq(x, FirstColon(x), Len(x)) \in {": <Media omitted>", ": <Media omitted>\n"}

\* the records the metrics are computed over
Selected ==
    {i \in 1..Len(Records) : selected_user = "Overall" \/ Records[i].user = selected_user}

\* C7: the body of every media placeholder message is exactly
\* "<Media omitted>", and the Media Shared metric is the number of media
\* placeholder messages among the selected records.
C7_MediaCounted ==
    (RunEnded /\ df # None) =>
        /\ \A i \in 1..Len(Records) :
              IsMediaBlock(frame[i].user_message) => Records[i].message = "<Media omitted>"
        /\ metrics # <<>> =>
              metrics[1].media_messages =
                  Cardinality({i \in Selected : IsMediaBlock(frame[i].user_message)})

\* the block of a user message ` name: text`
IsUserMessage(x) == Len(x) > 1 /\ Char(x, 1) = " " /\ FirstColon(x) > 2 /\ BeginsWithName(x)

WrittenName(x) == SubSeq(x, 2, FirstColon(x) - 1)

\* the text, which ends before the line break that ends the message
WrittenText(x) ==
    SubSeq(x, FirstColon(x) + 2,
           IF Char(x, Len(x)) = "\n" THEN Len(x) - 1 ELSE Len(x))

\* C8: the record of a user message `<timestamp> - <name>: <text>` has
\* the sender <name>, without surrounding whitespace, and the body <text>,
\* all its lines kept and nothing added.
C8_NameAndTextExact ==
    (RunEnded /\ df # None) =>
        \A i \in 1..Len(Records) :
            IsUserMessage(frame[i].user_message) =>
                /\ Records[i].user = WrittenName(frame[i].user_message)
                /\ Records[i].message = WrittenText(frame[i].user_message)

\* what a record gives back: the sender and ": ", unless the sender is the
\* sentinel, and the body
Rebuilt(r) ==
    (IF r.user = "group_notification" THEN "" ELSE r.user \o ": ") \o r.message

\* C9: the matched date, the sender prefix and the body of the i-th
\* record, concatenated, are the text from the start of the i-th match to
\* the start of the next; the split loses and moves no character.
C9_RoundTrip ==
    (RunEnded /\ df # None) =>
        \A i \in 1..Len(Records) :
            dates[i] \o Rebuilt(Records[i]) = dates[i] \o frame[i].user_message

\* the position of the first c of s after position `from`
IndexAfter(s, c, from) == Smallest({i \in (from + 1)..Len(s) : Char(s, i) = c})

\* the fields of a matched date, read off its punctuation; the letter of
\* AM/PM is the fourth character from the end, with or without a narrow
\* no-break space before it
TokenFields(tok) ==
    LET slash1 == IndexAfter(tok, "/", 0)
        slash2 == IndexAfter(tok, "/", slash1)
        comma == IndexAfter(tok, ",", slash2)
        colon == IndexAfter(tok, ":", comma)
    IN  [ day |-> SubSeq(tok, 1, slash1 - 1),
          month |-> SubSeq(tok, slash1 + 1, slash2 - 1),
          year |-> SubSeq(tok, slash2 + 1, comma - 1),
          hour |-> SubSeq(tok, comma + 2, colon - 1),
          minute |-> SubSeq(tok, colon + 1, colon + 2),
          pm |-> Char(tok, Len(tok) - 3) \in {"p", "P"} ]

\* yy is a year of 2000 to 2068 or of 1969 to 1999
FullYear(yy) == IF yy <= 68 THEN 2000 + yy ELSE 1900 + yy

\* a two-digit year, a valid day and month, an hour in 1..12 and a minute
\* in 0..59
WellFormed(f) ==
    /\ Len(f.year) = 2
    /\ ToInt(f.month) \in 1..12
    /\ ToInt(f.day) \in 1..DaysInMonth(FullYear(ToInt(f.year)), ToInt(f.month))
    /\ ToInt(f.hour) \in 1..12
    /\ ToInt(f.minute) \in 0..59

\* the timestamp the fields denote
Stamp(f) ==
    << FullYear(ToInt(f.year)), ToInt(f.month), ToInt(f.day),
       (ToInt(f.hour) % 12) + (IF f.pm THEN 12 ELSE 0), ToInt(f.minute) >>

\* C10: the timestamp of a matched date is non-null exactly when the date
\* has a two-digit year, a valid day and month, an hour in 1..12 and a
\* minute in 0..59: a date with a three- or four-digit year gives a null
\* timestamp, and a narrow no-break space before AM/PM changes nothing (the
\* timestamp is the one the fields denote). Stated of the date column once
\* converted and of every record of the table returned.
C10_TimestampIffWellFormed ==
    \A i \in 1..Len(dates) :
        LET f == TokenFields(dates[i])
        IN  /\ frame[i].date # NaT <=> WellFormed(f)
            /\ Len(f.year) > 2 => frame[i].date = NaT
            /\ WellFormed(f) => frame[i].date = Stamp(f)
            /\ df # None => Records[i].date = frame[i].date

\* C10: a table is returned with a record whose date was written with a
\* narrow no-break space and converted, and a record whose date has a
\* four-digit year and did not
C10_Witness ==
    /\ RunEnded
    /\ df # None
    /\ \E i, j \in 1..Len(dates) :
          /\ Contains(dates[i], NNBSP)
          /\ Records[i].date # NaT
          /\ Len(TokenFields(dates[j]).year) = 4
          /\ Records[j].date = NaT

=============================================================================
